---- MODULE Spec2Model ----
(***************************************************************************)
(* Model of the request core of the woocommerce client:                    *)
(* Client.doGetHeaders (retry loop, authentication by URL scheme),         *)
(* CheckResponseError / wrapSpecificError (response classification) and    *)
(* Client.NewRequest.  One Client is shared by the callers in Calls; every *)
(* caller runs doGetHeaders as a sequence of steps, one per access to the  *)
(* shared Client or to the network, so that concurrent calls interleave.   *)
(***************************************************************************)
EXTENDS Integers, Sequences, FiniteSets, TLC

\* ------------------------------------------------------------------ bounds
\* largest retry count given to WithRetry
MaxRetries == 3
\* number of calls the sequential caller makes on the one Client
MaxCalls == 2
\* largest whole number of seconds a Retry-After header announces
MaxRetryAfter == 2
\* largest number of entries in a Link header
MaxEntries == 2

\* ------------------------------------------------------- program constants
StatusOK == 200
StatusMultipleChoices == 300
\* the last status CheckResponseError accepts, and the last one below 2xx
StatusLast2xx == 299
StatusBelow2xx == 199
StatusNotFound == 404
StatusNotAcceptable == 406
StatusTooManyRequests == 429
StatusServiceUnavailable == 503
defaultHttpTimeout == 30

\* the callers sharing the Client
Calls == {1, 2}

VARIABLES
    cRetries,    \* c.retries: configured retry count
    cAttempts,   \* c.attempts: attempt counter, a field of the shared Client
    cClient,     \* c.Client: the http.Client requests are sent through
    cApp,        \* c.app: the credentials
    pc,          \* pc[p]: position of caller p inside its call
    req,         \* req[p]: the *http.Request of caller p
    retries,     \* retries[p]: the local variable retries of doGetHeaders
    tmp,         \* tmp[p]: value of c.attempts read by caller p for c.attempts++
    resp,        \* resp[p]: outcome of the latest c.Client.Do(req) of caller p
    hist,        \* hist[p]: outcomes of all c.Client.Do(req) of the current call
    lastSent,    \* lastSent[p]: the request as it went out on the latest send
    lastWait,    \* lastWait[p]: seconds slept while handling the latest response
    result,      \* result[p]: what the call returned (headers, error)
    callsLeft,   \* callsLeft[p]: calls caller p will still start
    endpoint,    \* endpoint[p]: the server behaviour caller p talks to
    cin,         \* the *http.Response given to CheckResponseError
    cout,        \* what CheckResponseError returned for cin
    listIn,      \* the list call: the caller that makes it, its URL scheme, its
                 \* options and the Link header the server sends
    pgOut,       \* what extractPagination returned for the Link header of listIn
    listOut      \* what ListWithPagination returned

vars == <<cRetries, cAttempts, cClient, cApp, pc, req, retries, tmp, resp, hist,
          lastSent, lastWait, result, callsLeft, endpoint,
          cin, cout, listIn, pgOut, listOut>>

\* the state of the calls on the Client
callVars == <<cRetries, cAttempts, cClient, cApp, pc, req, retries, tmp, resp, hist,
              lastSent, lastWait, result, callsLeft, endpoint>>
\* the arguments and results of the functions applied on their own
funVars == <<cin, cout, listIn, pgOut, listOut>>

\* ------------------------------------------------------------- data values
Max(a, b) == IF a >= b THEN a ELSE b

\* The Retry-After header: absent or unparseable (ok = FALSE), or a decimal
\* number of seconds, kept in tenths of a second.
NoRetryAfter == [ok |-> FALSE, tenths |-> 0]
RetryAfterSeconds(s) == [ok |-> TRUE, tenths |-> 10 * s]
RetryAfterFraction(s) == [ok |-> TRUE, tenths |-> 10 * s + 5]
RetryAfterValues ==
    {NoRetryAfter} \cup {RetryAfterSeconds(s) : s \in 0..MaxRetryAfter}
                   \cup {RetryAfterFraction(MaxRetryAfter)}

\* A completed c.Client.Do: err # nil (net), or a response with its status,
\* the kind of its body and its Retry-After header.
\*   body: "empty"; "json" a JSON object (for an error: {code,message,data}
\*   with message "m"); "json0" an error object with an empty message;
\*   "mismatch" valid JSON of another shape than the value it is decoded
\*   into; "bad" and "html" bytes that are not JSON; "unreadable" a body
\*   whose Read fails (a response handed to CheckResponseError directly: the
\*   bodies doGetHeaders passes on were read into a buffer by logResponse).
\*   err: for err # nil, which failure it is.
NetErr(k) ==
    [net |-> TRUE, status |-> 0, body |-> "empty", ra |-> NoRetryAfter, err |-> k]
Response(st, b, ra) ==
    [net |-> FALSE, status |-> st, body |-> b, ra |-> ra, err |-> ""]
NoResponse == Response(0, "empty", NoRetryAfter)

Bodies == {"empty", "json", "bad"}

AllResponses ==
    {NetErr("dial"), NetErr("timeout")}
    \cup {Response(StatusOK, b, NoRetryAfter) : b \in {"json", "bad", "mismatch"}}
    \cup {Response(StatusBelow2xx, "empty", NoRetryAfter),
          Response(StatusLast2xx, "json", NoRetryAfter),
          Response(StatusMultipleChoices, "empty", NoRetryAfter)}
    \cup {Response(st, b, NoRetryAfter) :
            st \in {StatusNotFound, StatusNotAcceptable, StatusServiceUnavailable},
            b \in Bodies}
    \cup {Response(StatusTooManyRequests, "empty", ra) : ra \in RetryAfterValues}
    \cup {Response(StatusTooManyRequests, b, RetryAfterSeconds(MaxRetryAfter)) :
            b \in {"json", "bad"}}

\* an endpoint that fails: transient statuses, a fatal status, network failure
FlakyResponses ==
    {NetErr("dial"),
     Response(StatusServiceUnavailable, "empty", NoRetryAfter),
     Response(StatusTooManyRequests, "empty", RetryAfterSeconds(MaxRetryAfter)),
     Response(StatusNotFound, "json", NoRetryAfter)}

\* an endpoint that answers 2xx
OkResponses == {Response(StatusOK, b, NoRetryAfter) : b \in {"json", "bad"}}

\* an endpoint that lists a resource: 2xx with a JSON array or with other
\* bytes, transient statuses, a fatal status, network failure
ListResponses == OkResponses \cup FlakyResponses

Responses(e) ==
    CASE e = "any" -> AllResponses
      [] e = "flaky" -> FlakyResponses
      [] e = "ok" -> OkResponses
      [] e = "list" -> ListResponses

\* ------------------------------------------------------------ error values
\*   body: the Body field of a ResponseDecodingError, "" for the other errors
NoError == [type |-> "nil", status |-> 0, msg |-> "", retryAfter |-> 0, body |-> ""]
HttpClientError(r) ==
    [type |-> "net", status |-> 0, msg |-> r.err, retryAfter |-> 0, body |-> ""]
JsonDecodeError ==
    [type |-> "json", status |-> 0, msg |-> "json", retryAfter |-> 0, body |-> ""]
ResponseDecodingError(st, b, m) ==
    [type |-> "ResponseDecodingError", status |-> st, msg |-> m, retryAfter |-> 0,
     body |-> b]
ResponseError(st, m) ==
    [type |-> "ResponseError", status |-> st, msg |-> m, retryAfter |-> 0, body |-> ""]
RateLimitError(e, ra) ==
    [type |-> "RateLimitError", status |-> e.status, msg |-> e.msg, retryAfter |-> ra,
     body |-> ""]

\* the error of an io.ReadAll that failed
ReadError ==
    [type |-> "io", status |-> 0, msg |-> "unexpected EOF", retryAfter |-> 0,
     body |-> ""]

\* the error NewRequest returns when step k of it fails
BuildError(k) ==
    [type |-> "build", status |-> 0, msg |-> k, retryAfter |-> 0, body |-> ""]

\* json.Unmarshal(bodyBytes, &woocommerceError) of line 248 succeeds
BodyParses(b) == b \in {"json", "json0"}
\* err.Error() of the json.Unmarshal that failed
ParseFailure(b) ==
    CASE b = "bad" -> "invalid character"
      [] b = "html" -> "invalid character '<'"
      [] b = "mismatch" -> "cannot unmarshal"
      [] OTHER -> "unexpected end of JSON input"
\* woocommerceError.Message after the parse
BodyMessage(b) == IF b = "json" THEN "m" ELSE ""
\* a decoder that takes a body with a message for an error
DecodesUnlessMessage(b) == b = "json0"

\* decoder.Decode(&v) of line 207 succeeds
Decodes(b) == b \in {"json", "json0"}

\* http.StatusText
StatusText(st) == IF st = StatusNotAcceptable THEN "Not Acceptable" ELSE "text"

\* int(f) of strconv.ParseFloat(header): 0 when the header does not parse,
\* else the number truncated toward zero.
ParseRetryAfter(ra) ==
    IF ~ra.ok THEN 0
    ELSE IF ra.tenths >= 0 THEN ra.tenths \div 10 ELSE 0 - ((0 - ra.tenths) \div 10)

wrapSpecificError(r, err) ==
    IF err.status = StatusTooManyRequests
    THEN RateLimitError(err, ParseRetryAfter(r.ra))
    ELSE IF err.status = StatusNotAcceptable
         THEN [err EXCEPT !.msg = StatusText(err.status)]
         ELSE err

\* a classifier that takes a body it cannot parse for an empty one
CheckResponseErrorLenient(r) ==
    IF StatusOK <= r.status /\ r.status < StatusMultipleChoices
    THEN NoError
    ELSE IF r.body = "unreadable"
    THEN ReadError
    ELSE IF r.body # "empty" /\ BodyParses(r.body)
         THEN ResponseError(r.status, BodyMessage(r.body))
         ELSE wrapSpecificError(r, ResponseError(r.status, ""))

CheckResponseError(r) ==
    IF StatusOK <= r.status /\ r.status < StatusMultipleChoices
    THEN NoError
    ELSE IF r.body = "unreadable"
    THEN ReadError
    ELSE IF r.body # "empty"
         THEN IF ~BodyParses(r.body)
              THEN ResponseDecodingError(r.status, r.body, ParseFailure(r.body))
              ELSE ResponseError(r.status, BodyMessage(r.body))
         ELSE wrapSpecificError(r, ResponseError(r.status, ""))

\* time.Sleep(time.Duration(RetryAfter) * time.Second): seconds actually waited
SleepSeconds(retryAfter) == Max(retryAfter, 0)

\* a guard that lets one more attempt through
BudgetExhaustedLate(r) == r <= 0

\* a guard that waits for the counter to be exactly used up
BudgetExhaustedAtOne(r) == r = 1

\* the guard of line 173: the loop gives up
BudgetExhausted(r) == r <= 1

\* the type assertion respErr.(RateLimitError) of line 177
IsRateLimitError(e) == e.type = "RateLimitError"

\* a switch that retries every error status
IsRetryStatusAny(st) == st >= StatusMultipleChoices

\* the switch on resp.StatusCode of lines 186-191
IsRetryStatus(st) == st = StatusServiceUnavailable

\* -------------------------------------------------------------- pagination
\* One comma-separated entry of a Link header, by its parts:
\*   shape: "ok" for <URL>; rel="REL" with optional spaces around it,
\*          "noquote" for <URL>; rel=REL, "blank" for spaces or nothing;
\*   rel:   the REL of an entry of shape "ok";
\*   url:   "ok" for a URL that url.Parse and url.ParseQuery accept, "invalid"
\*          for one url.Parse rejects, "badquery" for one whose query
\*          url.ParseQuery rejects;
\*   page:  the page query parameter of its URL, "" when it has none.
Rels == {"next", "prev", "first", "last"}
PageValues == {"", "2", "5", "x"}
Entry(sh, rel, u, pg) == [shape |-> sh, rel |-> rel, url |-> u, page |-> pg]
Entries ==
    {Entry("ok", rel, "ok", pg) : rel \in Rels \cup {"up"}, pg \in PageValues}
    \cup {Entry("ok", "next", "invalid", ""), Entry("ok", "next", "badquery", ""),
          Entry("noquote", "next", "ok", "2"), Entry("blank", "", "ok", "")}

RECURSIVE SeqsUpTo(_, _)
SeqsUpTo(S, n) ==
    IF n = 0 THEN {<<>>}
    ELSE LET shorter == SeqsUpTo(S, n - 1)
         IN  shorter \cup {Append(h, e) : h \in {x \in shorter : Len(x) = n - 1}, e \in S}

\* the Link header values: "" is the sequence without entries
LinkHeaders == SeqsUpTo(Entries, MaxEntries)

\* len(linkRegex.FindStringSubmatch(link)): the whole match and the two groups
\* of linkRegex when the entry matches, nothing when it does not
SubmatchCount(e) == IF e.shape = "ok" /\ e.rel \in Rels THEN 3 ELSE 0

\* the number the length of the match is compared with at line 520
ExpectedSubmatches == 4

\* strconv.Atoi
AtoiOk(str) == str \in {"2", "5"}
Atoi(str) == CASE str = "2" -> 2 [] str = "5" -> 5 [] OTHER -> 0
AtoiError == [type |-> "strconv", status |-> 0, msg |-> "invalid syntax",
              retryAfter |-> 0, body |-> ""]

\* a *ListOptions of a Pagination: nil, or options with their Page
NoPage == [set |-> FALSE, page |-> 0]
PageOptions(n) == [set |-> TRUE, page |-> n]
\* new(Pagination)
EmptyPagination ==
    [next |-> NoPage, prev |-> NoPage, first |-> NoPage, last |-> NoPage]

\* the (*Pagination, error) extractPagination returns; nil marks a nil pointer
PaginationResult(pg) == [nil |-> FALSE, pagination |-> pg, err |-> NoError]
PaginationError(e) == [nil |-> TRUE, pagination |-> EmptyPagination, err |-> e]
LinkHeaderError ==
    ResponseDecodingError(0, "", "could not extract pagination link header")
LinkUrlError ==
    ResponseDecodingError(0, "", "pagination does not contain a valid URL")
ParseQueryError == [type |-> "url", status |-> 0, msg |-> "invalid URL escape",
                    retryAfter |-> 0, body |-> ""]

\* a loop that skips the entries it cannot read
RECURSIVE ExtractFromSkipping(_, _, _)
ExtractFromSkipping(h, i, pg) ==
    IF i > Len(h) THEN PaginationResult(pg)
    ELSE IF SubmatchCount(h[i]) # ExpectedSubmatches
    THEN ExtractFromSkipping(h, i + 1, pg)
    ELSE IF h[i].url = "invalid"
    THEN PaginationError(LinkUrlError)
    ELSE IF h[i].url = "badquery"
    THEN PaginationError(ParseQueryError)
    ELSE IF h[i].page # "" /\ ~AtoiOk(h[i].page)
    THEN PaginationError(AtoiError)
    ELSE ExtractFromSkipping(h, i + 1,
                             [pg EXCEPT ![h[i].rel] = PageOptions(Atoi(h[i].page))])

\* the loop of lines 516-564 from entry i on, pg being the Pagination so far
RECURSIVE ExtractFrom(_, _, _)
ExtractFrom(h, i, pg) ==
    IF i > Len(h) THEN PaginationResult(pg)
    ELSE IF SubmatchCount(h[i]) # ExpectedSubmatches
    THEN PaginationError(LinkHeaderError)
    ELSE IF h[i].url = "invalid"
    THEN PaginationError(LinkUrlError)
    ELSE IF h[i].url = "badquery"
    THEN PaginationError(ParseQueryError)
    ELSE IF h[i].page # "" /\ ~AtoiOk(h[i].page)
    THEN PaginationError(AtoiError)
    ELSE ExtractFrom(h, i + 1,
                     [pg EXCEPT ![h[i].rel] = PageOptions(Atoi(h[i].page))])

\* a parser without the test for the empty header: strings.Split of "" is
\* one empty entry
extractPaginationSplitEmpty(linkHeader) ==
    IF linkHeader = <<>>
    THEN ExtractFrom(<<Entry("blank", "", "ok", "")>>, 1, EmptyPagination)
    ELSE ExtractFrom(linkHeader, 1, EmptyPagination)

extractPagination(linkHeader) ==
    IF linkHeader = <<>>
    THEN PaginationResult(EmptyPagination)
    ELSE ExtractFrom(linkHeader, 1, EmptyPagination)

\* what createAndDoGetHeaders hands to ListWithPagination: its error, and
\* without error the decoded resource and the Link header of the response
CallOutcome(e, d, h) == [err |-> e, data |-> d, link |-> h]

\* a list call: by, the caller (goroutine) that makes it, 0 for none; the
\* scheme of the base URL; build, "" or the step of NewRequest that fails
\* (options that cannot be encoded); link, the Link header of the responses
\* of the server
ListCall(by, s, b, h) == [by |-> by, scheme |-> s, build |-> b, link |-> h]
\* the empty header and one with a malformed entry
ShortLinkHeaders == {<<>>, <<Entry("noquote", "next", "ok", "2")>>}
NoListCall == ListCall(0, "https", "", <<>>)

\* the ([]T, *Pagination, error) of ListWithPagination; resource "" is nil
ListResult(d, pr) == [resource |-> d, pagination |-> pr]

\* ProductServiceOp.ListWithPagination and its copies for the other resources,
\* from the return of createAndDoGetHeaders on (lines 178-189)
ListWithPaginationOf(in) ==
    IF in.err # NoError
    THEN ListResult("", PaginationError(in.err))
    ELSE LET pr == extractPagination(in.link)
         IN  IF pr.err # NoError
             THEN ListResult("", PaginationError(pr.err))
             ELSE ListResult(in.data, pr)

\* values of the variables of a function that has not been applied
NotClassified == [done |-> FALSE, err |-> NoError]
NotExtracted == [done |-> FALSE, res |-> PaginationResult(EmptyPagination)]
NotListed == [done |-> FALSE, res |-> ListResult("", PaginationResult(EmptyPagination))]

\* the responses CheckResponseError is applied to on its own
ClassifyStatuses ==
    {StatusBelow2xx, StatusOK, StatusLast2xx, StatusMultipleChoices, StatusNotFound,
     StatusNotAcceptable, StatusTooManyRequests, StatusServiceUnavailable}
ClassifyBodies == {"empty", "json", "json0", "mismatch", "bad", "html", "unreadable"}
ClassifyRetryAfter == RetryAfterValues \cup {[ok |-> TRUE, tenths |-> 0 - 5]}
ClassifyInputs ==
    {Response(st, b, ra) :
        st \in ClassifyStatuses, b \in ClassifyBodies, ra \in ClassifyRetryAfter}

\* ------------------------------------------------------------------- state
\*   err: "" for a request that was built, else the step of NewRequest that
\*   failed (req is nil then)
\*   v: the value the response is to be decoded into, which travels with the
\*   request to doGetHeaders, is not nil
NoRequest ==
    [scheme |-> "", creds |-> FALSE, basicAuth |-> FALSE, body |-> "none", err |-> "",
     v |-> FALSE]
FailedRequest(k) == [NoRequest EXCEPT !.err = k]
\* the calls made: with a value to decode the response into, without or with
\* a request body (Get, Post, Put), and without either (Delete, Do(req, nil))
CallKinds ==
    {[body |-> "none", v |-> TRUE], [body |-> "full", v |-> TRUE],
     [body |-> "none", v |-> FALSE]}
\* url.Parse(relPath), query.Values(options), json.Marshal(body), http.NewRequest
BuildFailures == {"path", "options", "body", "method"}
\* a request as sent: basicAuth, the Authorization: Basic header of the request
\* handed to c.Client.Do; wireAuth, the Authorization header that leaves the
\* transport (the signing transport puts its own on a copy of the request)
NoSent == [scheme |-> "", creds |-> FALSE, via |-> "", body |-> "none",
           basicAuth |-> FALSE, wireAuth |-> ""]
\* the Timeout, in seconds, of the *http.Client: the one NewClient makes has
\* defaultHttpTimeout, the one oauth1's Config.Client makes has none (0)
ClientTimeout(client) == IF client = "plain" THEN defaultHttpTimeout ELSE 0
WireAuth(client, basic) ==
    IF client = "oauth" THEN "OAuth" ELSE IF basic THEN "Basic" ELSE ""
Sending(r, client, b) ==
    [scheme |-> r.scheme, creds |-> r.creds, via |-> client, body |-> b,
     basicAuth |-> r.basicAuth, wireAuth |-> WireAuth(client, r.basicAuth)]
NoResult == [ret |-> "none", err |-> NoError, headers |-> FALSE, value |-> "none"]

TypeOK ==
    /\ cRetries \in Int
    /\ cAttempts \in Int
    /\ cClient \in {"plain", "oauth"}
    /\ pc \in [Calls -> {"idle", "built", "auth", "loop", "inc", "send", "recv", "done"}]
    /\ retries \in [Calls -> Int]
    /\ callsLeft \in [Calls -> Nat]

InitShared ==
    /\ cRetries \in (0 - 1)..MaxRetries
    /\ cAttempts = 0
    /\ cClient = "plain"
    /\ cApp = [key |-> "ck", secret |-> "cs"]
    /\ pc = [p \in Calls |-> "idle"]
    /\ req = [p \in Calls |-> NoRequest]
    /\ retries = [p \in Calls |-> 0]
    /\ tmp = [p \in Calls |-> 0]
    /\ resp = [p \in Calls |-> NoResponse]
    /\ hist = [p \in Calls |-> <<>>]
    /\ lastSent = [p \in Calls |-> NoSent]
    /\ lastWait = [p \in Calls |-> 0]
    /\ result = [p \in Calls |-> NoResult]

\* no function is being applied on its own
InitFunIdle ==
    /\ cin = NoResponse
    /\ cout = NotClassified
    /\ listIn = NoListCall
    /\ pgOut = NotExtracted
    /\ listOut = NotListed

\* no call is made on the Client
InitCallsIdle ==
    /\ InitShared
    /\ cRetries = 0
    /\ callsLeft = [p \in Calls |-> 0]
    /\ endpoint = [p \in Calls |-> "any"]

\* one caller makes MaxCalls calls one after the other, against any server
Init ==
    /\ InitShared
    /\ callsLeft = [p \in Calls |-> IF p = 1 THEN MaxCalls ELSE 0]
    /\ endpoint = [p \in Calls |-> "any"]
    /\ InitFunIdle

\* one caller makes one call, against any server
InitOne ==
    /\ InitShared
    /\ callsLeft = [p \in Calls |-> IF p = 1 THEN 1 ELSE 0]
    /\ endpoint = [p \in Calls |-> "any"]
    /\ InitFunIdle

\* CheckResponseError applied to one response
InitClassify ==
    /\ InitCallsIdle
    /\ cin \in ClassifyInputs
    /\ cout = NotClassified
    /\ listIn = NoListCall
    /\ pgOut = NotExtracted
    /\ listOut = NotListed

\* caller 1 lists a resource of an https shop that answers 2xx, on a Client
\* with the retry count of NewClient: every Link header
InitListHeaders ==
    /\ cRetries = 0
    /\ listIn \in {ListCall(1, "https", "", h) : h \in LinkHeaders}
    /\ callsLeft = [p \in Calls |-> 0]
    /\ endpoint = [p \in Calls |-> "ok"]

\* caller 1 lists a resource, with any retry count and scheme, options that
\* can or cannot be encoded, against a server that may fail
InitListAlone ==
    /\ listIn \in {ListCall(1, sch, b, h) :
                     sch \in {"https", "http"}, b \in {"", "options"},
                     h \in ShortLinkHeaders}
    /\ callsLeft = [p \in Calls |-> 0]
    /\ endpoint = [p \in Calls |-> "list"]

\* caller 1 lists a resource of an https shop that answers 2xx while caller 2
\* makes a call of any kind on the same Client against a failing endpoint
InitListShared ==
    /\ listIn \in {ListCall(1, "https", "", h) : h \in ShortLinkHeaders}
    /\ callsLeft = [p \in Calls |-> IF p = 2 THEN 1 ELSE 0]
    /\ endpoint = [p \in Calls |-> IF p = 2 THEN "flaky" ELSE "ok"]

\* one list call on a new Client, and extractPagination applied to the Link
\* header of its server
InitList ==
    /\ InitShared
    /\ InitListHeaders \/ InitListAlone \/ InitListShared
    /\ cin = NoResponse
    /\ cout = NotClassified
    /\ pgOut = NotExtracted
    /\ listOut = NotListed

\* two callers make one call each at the same time: caller 1 against a failing
\* endpoint, caller 2 against one that answers 2xx
InitConc ==
    /\ InitShared
    /\ callsLeft = [p \in Calls |-> 1]
    /\ endpoint = [p \in Calls |-> IF p = 1 THEN "flaky" ELSE "ok"]
    /\ InitFunIdle

\* ----------------------------------------------------------------- actions
\* Client.NewRequest (reached through createAndDoGetHeaders, or called by the
\* user before Client.Do): a request with the JSON headers and basic auth; the
\* URL may be of either scheme, the body is absent or a JSON document.
NewRequest(p) ==
    /\ pc[p] \in {"idle", "done"}
    /\ callsLeft[p] > 0
    /\ \/ \E scheme \in {"https", "http"}, k \in CallKinds :
            req' = [req EXCEPT ![p] = [scheme |-> scheme, creds |-> FALSE,
                                       basicAuth |-> TRUE, body |-> k.body,
                                       err |-> "", v |-> k.v]]
       \/ \E k \in BuildFailures : req' = [req EXCEPT ![p] = FailedRequest(k)]
    /\ callsLeft' = [callsLeft EXCEPT ![p] = @ - 1]
    /\ pc' = [pc EXCEPT ![p] = "built"]
    /\ hist' = [hist EXCEPT ![p] = <<>>]
    /\ resp' = [resp EXCEPT ![p] = NoResponse]
    /\ lastSent' = [lastSent EXCEPT ![p] = NoSent]
    /\ lastWait' = [lastWait EXCEPT ![p] = 0]
    /\ result' = [result EXCEPT ![p] = NoResult]
    /\ UNCHANGED <<cRetries, cAttempts, cClient, cApp, retries, tmp, endpoint>>

\* a caller that goes on whatever NewRequest returned
BuildFailedIgnored(r) == FALSE

\* createAndDoGetHeaders line 391: err != nil after NewRequest
BuildFailed(r) == r.err # ""

\* createAndDoGetHeaders lines 391-393: return nil, err
ReturnBuildError(p) ==
    /\ pc[p] = "built"
    /\ BuildFailed(req[p])
    /\ result' = [result EXCEPT ![p] =
                    [ret |-> "err", err |-> BuildError(req[p].err),
                     headers |-> FALSE, value |-> "none"]]
    /\ pc' = [pc EXCEPT ![p] = "done"]
    /\ UNCHANGED <<cRetries, cAttempts, cClient, cApp, req, retries, tmp, resp,
                   hist, lastSent, lastWait, callsLeft, endpoint>>

\* a remaining-retries counter kept on the Client: starting a call resets it
\* for every call in flight
doGetHeadersClientScoped(p) ==
    /\ pc[p] = "built"
    /\ ~BuildFailed(req[p])
    /\ retries' = [q \in Calls |-> cRetries]
    /\ cAttempts' = 0
    /\ pc' = [pc EXCEPT ![p] = "auth"]
    /\ UNCHANGED <<cRetries, cClient, cApp, req, tmp, resp, hist, lastSent,
                   lastWait, result, callsLeft, endpoint>>

\* a call that counts on from the attempts of the call before
doGetHeadersKeepingAttempts(p) ==
    /\ pc[p] = "built"
    /\ ~BuildFailed(req[p])
    /\ retries' = [retries EXCEPT ![p] = cRetries]
    /\ pc' = [pc EXCEPT ![p] = "auth"]
    /\ UNCHANGED <<cRetries, cAttempts, cClient, cApp, req, tmp, resp, hist,
                   lastSent, lastWait, result, callsLeft, endpoint>>

\* doGetHeaders, called with a request that was built (line 394), lines
\* 136-138: retries := c.retries; c.attempts = 0; c.logRequest(req), which
\* reads the body and puts a copy back.
doGetHeaders(p) ==
    /\ pc[p] = "built"
    /\ ~BuildFailed(req[p])
    /\ retries' = [retries EXCEPT ![p] = cRetries]
    /\ cAttempts' = 0
    /\ pc' = [pc EXCEPT ![p] = "auth"]
    /\ UNCHANGED <<cRetries, cClient, cApp, req, tmp, resp, hist, lastSent,
                   lastWait, result, callsLeft, endpoint>>

\* lines 140-145: https, the credentials go into the query string
AuthQuery(p) ==
    /\ pc[p] = "auth"
    /\ req[p].scheme = "https"
    /\ req' = [req EXCEPT ![p].creds = TRUE]
    /\ pc' = [pc EXCEPT ![p] = "loop"]
    /\ UNCHANGED <<cRetries, cAttempts, cClient, cApp, retries, tmp, resp, hist,
                   lastSent, lastWait, result, callsLeft, endpoint>>

\* lines 146-154: any other scheme, c.Client becomes an OAuth1 signing client
AuthSigned(p) ==
    /\ pc[p] = "auth"
    /\ req[p].scheme # "https"
    /\ cClient' = "oauth"
    /\ pc' = [pc EXCEPT ![p] = "loop"]
    /\ UNCHANGED <<cRetries, cAttempts, cApp, req, retries, tmp, resp, hist,
                   lastSent, lastWait, result, callsLeft, endpoint>>

\* line 156, c.attempts++ on the shared Client without synchronisation:
\* the read and the write are separate steps
AttemptsRead(p) ==
    /\ pc[p] = "loop"
    /\ tmp' = [tmp EXCEPT ![p] = cAttempts]
    /\ pc' = [pc EXCEPT ![p] = "inc"]
    /\ UNCHANGED <<cRetries, cAttempts, cClient, cApp, req, retries, resp, hist,
                   lastSent, lastWait, result, callsLeft, endpoint>>

AttemptsWrite(p) ==
    /\ pc[p] = "inc"
    /\ cAttempts' = tmp[p] + 1
    /\ pc' = [pc EXCEPT ![p] = "send"]
    /\ UNCHANGED <<cRetries, cClient, cApp, req, retries, tmp, resp, hist,
                   lastSent, lastWait, result, callsLeft, endpoint>>

\* line 158, resp, err = c.Client.Do(req): the request goes out through the
\* c.Client of that moment and the server (or the network) answers.  A body
\* already read by an earlier send is sent again only when the transport
\* rewinds it (GetBody, on a reused connection).
ClientDo(p) ==
    /\ pc[p] = "send"
    /\ \E r \in Responses(endpoint[p]) :
         /\ resp' = [resp EXCEPT ![p] = r]
         /\ hist' = [hist EXCEPT ![p] = Append(@, r)]
    /\ lastSent' = [lastSent EXCEPT ![p] =
                      Sending(req[p], cClient,
                              IF req[p].body = "none" THEN "none" ELSE "full")]
    /\ req' = [req EXCEPT ![p].body = IF @ = "none" THEN "none" ELSE "drained"]
    /\ lastWait' = [lastWait EXCEPT ![p] = 0]
    /\ pc' = [pc EXCEPT ![p] = "recv"]
    /\ UNCHANGED <<cRetries, cAttempts, cClient, cApp, retries, tmp, result,
                   callsLeft, endpoint>>

\* line 158 with a body already read and a transport that does not rewind it:
\* the request is cut short (ContentLength with an empty body), err # nil
ClientDoDrained(p) ==
    /\ pc[p] = "send"
    /\ req[p].body = "drained"
    /\ resp' = [resp EXCEPT ![p] = NetErr("body")]
    /\ hist' = [hist EXCEPT ![p] = Append(@, NetErr("body"))]
    /\ lastSent' = [lastSent EXCEPT ![p] = Sending(req[p], cClient, "drained")]
    /\ lastWait' = [lastWait EXCEPT ![p] = 0]
    /\ pc' = [pc EXCEPT ![p] = "recv"]
    /\ UNCHANGED <<cRetries, cAttempts, cClient, cApp, req, retries, tmp, result,
                   callsLeft, endpoint>>

Return(p, res) ==
    /\ result' = [result EXCEPT ![p] = res]
    /\ pc' = [pc EXCEPT ![p] = "done"]
    /\ UNCHANGED <<cRetries, cAttempts, cClient, cApp, req, retries, tmp, resp,
                   hist, lastSent, lastWait, callsLeft, endpoint>>

\* a loop that counts down the retry count of the Client itself
RetryOnClient(p, wait) ==
    /\ lastWait' = [lastWait EXCEPT ![p] = wait]
    /\ retries' = [retries EXCEPT ![p] = @ - 1]
    /\ cRetries' = cRetries - 1
    /\ pc' = [pc EXCEPT ![p] = "loop"]
    /\ UNCHANGED <<cAttempts, cClient, cApp, req, tmp, resp, hist,
                   lastSent, result, callsLeft, endpoint>>

\* sleep wait seconds, retries--, continue
Retry(p, wait) ==
    /\ lastWait' = [lastWait EXCEPT ![p] = wait]
    /\ retries' = [retries EXCEPT ![p] = @ - 1]
    /\ pc' = [pc EXCEPT ![p] = "loop"]
    /\ UNCHANGED <<cRetries, cAttempts, cClient, cApp, req, tmp, resp, hist,
                   lastSent, result, callsLeft, endpoint>>

\* an error return that hands the headers of the response back as well
ErrorResultWithHeaders(e) ==
    [ret |-> "err", err |-> e, headers |-> TRUE, value |-> "none"]

\* return nil, err; headers: the http.Header returned is not nil
ErrorResult(e) == [ret |-> "err", err |-> e, headers |-> FALSE, value |-> "none"]
\* return resp.Header, nil (line 213), resp being the response of the last send
OkResult == [ret |-> "ok", err |-> NoError, headers |-> TRUE, value |-> "v"]
\* the same with v == nil: nothing is decoded
OkHeadersOnly == [ret |-> "ok", err |-> NoError, headers |-> TRUE, value |-> "none"]
\* lines 205-211: the body is decoded only if v != nil
NeedsDecoding(v) == v

\* a loop that retries a failed send while the budget lasts
ReturnClientErrorRetry(p) ==
    /\ pc[p] = "recv"
    /\ resp[p].net
    /\ IF BudgetExhausted(retries[p])
       THEN Return(p, ErrorResult(HttpClientError(resp[p])))
       ELSE Retry(p, 0)

\* lines 161-163: http client errors, not api responses
ReturnClientError(p) ==
    /\ pc[p] = "recv"
    /\ resp[p].net
    /\ Return(p, ErrorResult(HttpClientError(resp[p])))

\* lines 165-168 and 202-213: no error, and the body decodes into v or there
\* is no v to decode it into
Success(p) ==
    /\ pc[p] = "recv"
    /\ ~resp[p].net
    /\ CheckResponseError(resp[p]) = NoError
    /\ NeedsDecoding(req[p].v) => Decodes(resp[p].body)
    /\ Return(p, IF NeedsDecoding(req[p].v) THEN OkResult ELSE OkHeadersOnly)

\* lines 205-210: no error, v != nil and the body does not decode
DecodeFail(p) ==
    /\ pc[p] = "recv"
    /\ ~resp[p].net
    /\ CheckResponseError(resp[p]) = NoError
    /\ NeedsDecoding(req[p].v)
    /\ ~Decodes(resp[p].body)
    /\ Return(p, ErrorResult(JsonDecodeError))

\* lines 173-175: if retries <= 1 { return nil, respErr }
GiveUp(p) ==
    /\ pc[p] = "recv"
    /\ ~resp[p].net
    /\ CheckResponseError(resp[p]) # NoError
    /\ BudgetExhausted(retries[p])
    /\ Return(p, ErrorResult(CheckResponseError(resp[p])))

\* lines 177-183: a RateLimitError, sleep RetryAfter seconds, retries--, continue
RetryRateLimit(p) ==
    /\ pc[p] = "recv"
    /\ ~resp[p].net
    /\ CheckResponseError(resp[p]) # NoError
    /\ ~BudgetExhausted(retries[p])
    /\ IsRateLimitError(CheckResponseError(resp[p]))
    /\ Retry(p, SleepSeconds(CheckResponseError(resp[p]).retryAfter))

\* lines 185-195: status 503, retries--, continue
RetryUnavailable(p) ==
    /\ pc[p] = "recv"
    /\ ~resp[p].net
    /\ CheckResponseError(resp[p]) # NoError
    /\ ~BudgetExhausted(retries[p])
    /\ ~IsRateLimitError(CheckResponseError(resp[p]))
    /\ IsRetryStatus(resp[p].status)
    /\ Retry(p, 0)

\* lines 197-199: no retry attempts, just return the err
ReturnResponseError(p) ==
    /\ pc[p] = "recv"
    /\ ~resp[p].net
    /\ CheckResponseError(resp[p]) # NoError
    /\ ~BudgetExhausted(retries[p])
    /\ ~IsRateLimitError(CheckResponseError(resp[p]))
    /\ ~IsRetryStatus(resp[p].status)
    /\ Return(p, ErrorResult(CheckResponseError(resp[p])))

\* doGetHeaders as a function of the configured retry count and of the
\* outcomes h of its sends: the number of sends and what the call returns
\* (nothing yet when h ends before the loop does)
RECURSIVE RunLoop(_, _, _, _)
RunLoop(r, v, h, i) ==
    IF i > Len(h)
    THEN [sent |-> i - 1, result |-> NoResult]
    ELSE LET rs == h[i]
             e == CheckResponseError(rs)
         IN  IF rs.net
             THEN [sent |-> i, result |-> ErrorResult(HttpClientError(rs))]
             ELSE IF e = NoError
             THEN [sent |-> i,
                   result |-> IF ~NeedsDecoding(v) THEN OkHeadersOnly
                              ELSE IF Decodes(rs.body) THEN OkResult
                              ELSE ErrorResult(JsonDecodeError)]
             ELSE IF BudgetExhausted(r)
             THEN [sent |-> i, result |-> ErrorResult(e)]
             ELSE IF IsRateLimitError(e) \/ IsRetryStatus(rs.status)
             THEN RunLoop(r - 1, v, h, i + 1)
             ELSE [sent |-> i, result |-> ErrorResult(e)]

RunAlone(n, v, h) == RunLoop(n, v, h, 1)

\* CheckResponseError(r)
Classify ==
    /\ ~cout.done
    /\ cout' = [done |-> TRUE, err |-> CheckResponseError(cin)]
    /\ UNCHANGED <<callVars, cin, listIn, pgOut, listOut>>

\* extractPagination(headers.Get("Link"))
ExtractPagination ==
    /\ ~pgOut.done
    /\ pgOut' = [done |-> TRUE, res |-> extractPagination(listIn.link)]
    /\ UNCHANGED <<callVars, cin, cout, listIn, listOut>>

\* ListWithPagination(options) by caller p, line 177 as far as NewRequest in
\* createAndDoGetHeaders("GET", path, nil, options, &resource): a GET without
\* body whose response is decoded into &resource, or the error of the build.
\* The call then runs doGetHeaders step by step like every other call on the
\* Client.
ListWithPagination(p) ==
    /\ p = listIn.by
    /\ pc[p] = "idle"
    /\ ~listOut.done
    /\ req' = [req EXCEPT ![p] =
                 IF listIn.build # "" THEN FailedRequest(listIn.build)
                 ELSE [scheme |-> listIn.scheme, creds |-> FALSE, basicAuth |-> TRUE,
                       body |-> "none", err |-> "", v |-> TRUE]]
    /\ pc' = [pc EXCEPT ![p] = "built"]
    /\ hist' = [hist EXCEPT ![p] = <<>>]
    /\ resp' = [resp EXCEPT ![p] = NoResponse]
    /\ lastSent' = [lastSent EXCEPT ![p] = NoSent]
    /\ lastWait' = [lastWait EXCEPT ![p] = 0]
    /\ result' = [result EXCEPT ![p] = NoResult]
    /\ UNCHANGED <<cRetries, cAttempts, cClient, cApp, retries, tmp, callsLeft,
                   endpoint, funVars>>

\* ListWithPagination from the return of createAndDoGetHeaders on (lines
\* 178-189): the error of the call, or the Link header of the response parsed
ListWithPaginationReturn(p) ==
    /\ p = listIn.by
    /\ pc[p] = "done"
    /\ ~listOut.done
    /\ listOut' = [done |-> TRUE,
                   res |-> ListWithPaginationOf(
                             CallOutcome(result[p].err, result[p].value, listIn.link))]
    /\ UNCHANGED <<callVars, cin, cout, listIn, pgOut>>

NextClassify == Classify

Next ==
    /\ UNCHANGED funVars
    /\ \E p \in Calls :
        \/ NewRequest(p)
        \/ ReturnBuildError(p)
        \/ doGetHeaders(p)
        \/ AuthQuery(p)
        \/ AuthSigned(p)
        \/ AttemptsRead(p)
        \/ AttemptsWrite(p)
        \/ ClientDo(p)
        \/ ClientDoDrained(p)
        \/ ReturnClientError(p)
        \/ Success(p)
        \/ DecodeFail(p)
        \/ GiveUp(p)
        \/ RetryRateLimit(p)
        \/ RetryUnavailable(p)
        \/ ReturnResponseError(p)

\* a list call among the calls on the Client, and extractPagination on its own
NextList ==
    \/ ExtractPagination
    \/ \E p \in Calls : ListWithPagination(p)
    \/ \E p \in Calls : ListWithPaginationReturn(p)
    \/ Next

Spec == Init /\ [][Next]_vars

SpecConc == InitConc /\ [][Next]_vars

\* one call that runs on: the calling goroutine executes statement after
\* statement, a sleep ends, and c.Client.Do returns with the server's response
\* or an error
SpecLive == InitOne /\ [][Next]_vars /\ WF_vars(Next)

SpecClassify == InitClassify /\ [][NextClassify]_vars

SpecList == InitList /\ [][NextList]_vars

\* ------------------------------------------------------------------ claims
Sent(p) == Len(hist[p])
Last(h) == h[Len(h)]
AllStatus(h, st) == \A i \in 1..Len(h) : ~h[i].net /\ h[i].status = st
\* a response the claims call retryable and the loop treats as such
Retryable(r) ==
    /\ ~r.net
    /\ r.status = StatusServiceUnavailable \/ IsRateLimitError(CheckResponseError(r))
\* the latest response of p has been handled and no later one has arrived
Handled(p) == Sent(p) > 0 /\ pc[p] \in {"loop", "inc", "send", "done"}

\* C1: with a retry count N >= 0, a call whose every attempt is answered 503
\* sends exactly max(N,1) requests and returns the error of the last one; it
\* never sends more and never returns success.
C1_AlwaysUnavailable ==
    \A p \in Calls :
        (cRetries >= 0 /\ Sent(p) > 0 /\ AllStatus(hist[p], StatusServiceUnavailable))
        => /\ Sent(p) <= Max(cRetries, 1)
           /\ result[p].ret # "ok"
           /\ Handled(p) /\ Sent(p) = Max(cRetries, 1) => pc[p] = "done"
           /\ pc[p] = "done"
              => /\ Sent(p) = Max(cRetries, 1)
                 /\ result[p] = ErrorResult(CheckResponseError(resp[p]))

C1_Witness ==
    \E p \in Calls :
        /\ pc[p] = "done"
        /\ cRetries = MaxRetries
        /\ Sent(p) = MaxRetries
        /\ AllStatus(hist[p], StatusServiceUnavailable)
        /\ result[p].ret = "err"

\* C2: the retry count N is the number of additional attempts: a call that
\* gives up on a retryable response (429 or 503), having received nothing but
\* retryable responses, has sent N+1 requests (one request when N = 0).
C2_AdditionalAttempts ==
    \A p \in Calls :
        (/\ cRetries >= 0
         /\ pc[p] = "done"
         /\ Sent(p) > 0
         /\ \A i \in 1..Sent(p) : Retryable(hist[p][i]))
        => Sent(p) = cRetries + 1

\* C3: a send that fails at the network level ends the call at once: it is
\* the last send of the call, nothing is slept, and the call returns that very
\* error.
C3_NetworkErrorFatal ==
    \A p \in Calls :
        /\ \A i \in 1..(Sent(p) - 1) : ~hist[p][i].net
        /\ (Handled(p) /\ resp[p].net)
           => /\ pc[p] = "done"
              /\ lastWait[p] = 0
              /\ result[p] = ErrorResult(HttpClientError(resp[p]))
              /\ result[p].err.msg = Last(hist[p]).err

C3_Witness ==
    \E p \in Calls :
        /\ pc[p] = "done"
        /\ Sent(p) = 2
        /\ resp[p] = NetErr("timeout")
        /\ retries[p] > 1
        /\ result[p].err.msg = "timeout"

\* C4: a 429 response with Retry-After: S received while retries remain
\* (remaining-retries counter > 0) is followed by a wait of at least S seconds,
\* one decrement of the counter and another attempt.
C4_RateLimitWait ==
    [][\A p \in Calls :
        (/\ pc[p] = "recv"
         /\ pc'[p] # "recv"
         /\ ~resp[p].net
         /\ resp[p].status = StatusTooManyRequests
         /\ resp[p].ra.ok
         /\ retries[p] > 0)
        => /\ pc'[p] = "loop"
           /\ 10 * lastWait'[p] >= resp[p].ra.tenths
           /\ retries'[p] = retries[p] - 1]_vars

\* C5: a 503 response received while retries remain (remaining-retries
\* counter > 0) is followed by one decrement of the counter and another
\* attempt, without a sleep.
C5_UnavailableRetry ==
    [][\A p \in Calls :
        (/\ pc[p] = "recv"
         /\ pc'[p] # "recv"
         /\ ~resp[p].net
         /\ resp[p].status = StatusServiceUnavailable
         /\ retries[p] > 0)
        => /\ pc'[p] = "loop"
           /\ lastWait'[p] = 0
           /\ retries'[p] = retries[p] - 1]_vars

\* a status outside 2xx that is neither 429 nor 503
FatalStatus(r) ==
    /\ ~r.net
    /\ ~(StatusOK <= r.status /\ r.status < StatusMultipleChoices)
    /\ r.status \notin {StatusTooManyRequests, StatusServiceUnavailable}

\* C6: a response with a status outside 2xx other than 429 and 503 ends the
\* call with its error whatever the retry budget: no request follows it.
C6_OtherStatusFatal ==
    \A p \in Calls :
        /\ \A i \in 1..(Sent(p) - 1) : ~FatalStatus(hist[p][i])
        /\ (Handled(p) /\ FatalStatus(resp[p]))
           => /\ pc[p] = "done"
              /\ result[p] = ErrorResult(CheckResponseError(resp[p]))

C6_Witness ==
    \E p \in Calls :
        /\ pc[p] = "done"
        /\ FatalStatus(resp[p])
        /\ Sent(p) = 2
        /\ retries[p] > 1
        /\ result[p].err.status = resp[p].status

\* C7: a response classified as a decoding error (not 2xx, a body that is
\* not an error object) is fatal whatever its status and the retry budget: no
\* request follows it.
C7_DecodingErrorFatal ==
    \A p \in Calls :
        \A i \in 1..(Sent(p) - 1) :
            hist[p][i].net
            \/ CheckResponseError(hist[p][i]).type # "ResponseDecodingError"

\* C8: of two calls running at the same time on one Client, each sends the
\* requests and returns the outcome it would running alone; so the one whose
\* endpoint always answers a retryable status sends max(N,1) requests and
\* returns the last error, and the one answered 2xx at once sends one request
\* and returns what the decoding of that body gives.  (A call whose request
\* could not be built sends nothing, alone or not.)
C8_Independent ==
    \A p \in Calls :
        (pc[p] = "done" /\ req[p].err = "")
        => /\ RunAlone(cRetries, req[p].v, hist[p])
                = [sent |-> Sent(p), result |-> result[p]]
           /\ (\A i \in 1..Sent(p) : Retryable(hist[p][i]))
              => /\ Sent(p) = Max(cRetries, 1)
                 /\ result[p] = ErrorResult(CheckResponseError(Last(hist[p])))
           /\ (hist[p][1] \in OkResponses)
              => /\ Sent(p) = 1
                 /\ result[p] = IF ~req[p].v THEN OkHeadersOnly
                                ELSE IF Decodes(hist[p][1].body) THEN OkResult
                                ELSE ErrorResult(JsonDecodeError)

\* both calls are over, the failing one after MaxRetries requests, and their
\* increments of c.attempts were interleaved
C8_Witness ==
    /\ pc[1] = "done" /\ pc[2] = "done"
    /\ cRetries = MaxRetries
    /\ Sent(1) = MaxRetries
    /\ \A i \in 1..Sent(1) : Retryable(hist[1][i])
    /\ result[1].ret = "err"
    /\ result[2] = OkResult
    /\ cAttempts = 2

\* C9: the attempt counter is the call's own: whenever a call has just sent a
\* request, the attempt counter it reads equals the number of requests it sent.
C9_AttemptsPerCall ==
    \A p \in Calls : pc[p] = "recv" => cAttempts = Sent(p)

\* C10: every request goes out under exactly one strategy, chosen by its
\* scheme: https with the credentials in the query and not through the signing
\* transport, any other scheme through the signing transport and without the
\* credentials in the query.
C10_OneStrategy ==
    \A p \in Calls :
        lastSent[p] # NoSent
        => IF lastSent[p].scheme = "https"
           THEN lastSent[p].creds /\ lastSent[p].via # "oauth"
           ELSE ~lastSent[p].creds /\ lastSent[p].via = "oauth"

\* the *http.Client a freshly constructed Client sends a request of scheme s
\* through: its own for https, the signing one it installs for anything else
FreshClient(s) == IF s = "https" THEN "plain" ELSE "oauth"

\* C11: the way a request is sent depends on its own scheme only: whatever
\* calls came before on the Client, it goes through the *http.Client, and
\* leaves with the Authorization header, that a freshly constructed Client
\* would use for a request of that scheme.
C11_SchemeOnly ==
    \A p \in Calls :
        lastSent[p] # NoSent
        => /\ lastSent[p].via = FreshClient(lastSent[p].scheme)
           /\ lastSent[p].wireAuth
                = WireAuth(FreshClient(lastSent[p].scheme), lastSent[p].basicAuth)

\* C12: a request sent over a scheme other than https carries the consumer
\* secret neither in its query string nor in a header of the request that
\* NewRequest built and c.Client.Do was given.
C12_NoCleartextSecret ==
    \A p \in Calls :
        (lastSent[p] # NoSent /\ lastSent[p].scheme # "https")
        => ~lastSent[p].creds /\ ~lastSent[p].basicAuth

\* C13: CheckResponseError makes of every 429 whose body is empty or an
\* error object a RateLimitError, and its RetryAfter is the Retry-After header
\* in whole seconds, 0 when the header is absent or does not parse.
C13_RateLimitClassified ==
    (/\ cout.done
     /\ cin.status = StatusTooManyRequests
     /\ cin.body \in {"empty", "json", "json0"})
    => /\ IsRateLimitError(cout.err)
       /\ cout.err.status = StatusTooManyRequests
       /\ cout.err.retryAfter = ParseRetryAfter(cin.ra)

\* C14: CheckResponseError on a 406 returns an error whose message is the
\* reason phrase of 406, whatever the body says.
C14_NotAcceptableMessage ==
    (cout.done /\ cin.status = StatusNotAcceptable /\ cin.body # "unreadable")
    => /\ cout.err # NoError
       /\ cout.err.msg = StatusText(StatusNotAcceptable)

\* the bodies that were read, are not empty and are not an error object
NotErrorObject == {"mismatch", "bad", "html"}

\* C15: for a status outside 200..299, CheckResponseError turns a body that
\* is not empty and is not an error object into a ResponseDecodingError with
\* the status, the body as read and the message of the parse failure, and an
\* empty body into a ResponseError or RateLimitError of that status whose
\* message is empty, but for 406.
C15_BodyHandling ==
    (cout.done /\ ~(StatusOK <= cin.status /\ cin.status <= StatusLast2xx))
    => /\ cin.body \in NotErrorObject
          => /\ cout.err.type = "ResponseDecodingError"
             /\ cout.err.status = cin.status
             /\ cout.err.body = cin.body
             /\ cout.err.msg = ParseFailure(cin.body)
             /\ cout.err.msg # ""
       /\ cin.body = "empty"
          => /\ cout.err.type \in {"ResponseError", "RateLimitError"}
             /\ cout.err.status = cin.status
             /\ cout.err.body = ""
             /\ cin.status # StatusNotAcceptable => cout.err.msg = ""

C15_Witness ==
    /\ cout.done
    /\ cin.status = StatusServiceUnavailable
    /\ cin.body = "html"
    /\ cout.err = ResponseDecodingError(StatusServiceUnavailable, "html",
                                        "invalid character '<'")

\* a call has returned and its last send was answered by an HTTP response
Answered(p) == pc[p] = "done" /\ Sent(p) > 0 /\ ~resp[p].net
Is2xx(st) == StatusOK <= st /\ st <= StatusLast2xx
ClassifiedKinds == {"ResponseDecodingError", "RateLimitError", "ResponseError"}
\* bodies that are valid JSON, and those of them the caller's value takes
ValidJson == {"json", "json0", "mismatch"}
DecodableJson == {"json", "json0"}

\* C16 as stated: a final response is an error of its status exactly when
\* the status is outside 200..299, and a call whose final response is 200 with
\* a body of valid JSON, whatever it holds, returns the headers and, when the
\* caller passed a value to decode into, the decoded value.
C16_OkAnyJson ==
    \A p \in Calls :
        Answered(p)
        => /\ ~Is2xx(resp[p].status)
              <=> (result[p].err.type \in ClassifiedKinds
                   /\ result[p].err.status = resp[p].status)
           /\ (resp[p].status = StatusOK /\ resp[p].body \in ValidJson)
              => result[p] = (IF req[p].v THEN OkResult ELSE OkHeadersOnly)

\* C16 amended: as above, the body being JSON that decodes into the value the
\* caller passed, or any valid JSON when the caller passed none.
C16_OkDecodableJson ==
    \A p \in Calls :
        Answered(p)
        => /\ ~Is2xx(resp[p].status)
              <=> (result[p].err.type \in ClassifiedKinds
                   /\ result[p].err.status = resp[p].status)
           /\ (resp[p].status = StatusOK /\ resp[p].body \in ValidJson)
              => IF req[p].v
                 THEN resp[p].body \in DecodableJson => result[p] = OkResult
                 ELSE result[p] = OkHeadersOnly

C16_Witness ==
    \E p \in Calls :
        /\ Answered(p)
        /\ resp[p] = Response(StatusOK, "json", NoRetryAfter)
        /\ Sent(p) = 2
        /\ req[p].v
        /\ result[p].ret = "ok" /\ result[p].value = "v"

\* C17: a call that sent its request returns no error of another kind than
\* ResponseDecodingError, RateLimitError and ResponseError, but the error of a
\* send that failed, which it returns as it got it.
C17_ClassifiedErrors ==
    \A p \in Calls :
        (pc[p] = "done" /\ Sent(p) > 0 /\ result[p].ret = "err")
        => \/ result[p].err.type \in ClassifiedKinds
           \/ resp[p].net /\ result[p].err = HttpClientError(resp[p])

\* an entry that is not of the shape <URL>; rel="REL"
Malformed(e) == e.shape # "ok"
\* an entry of that shape whose URL parses and whose page, if any, is a number
WellFormed(e) == e.shape = "ok" /\ e.url = "ok" /\ (e.page = "" \/ AtoiOk(e.page))
UnknownRel(e) == e.rel \notin Rels
HasMalformed(h) == \E i \in 1..Len(h) : Malformed(h[i])
HasUnknownRel(h) == \E i \in 1..Len(h) : UnknownRel(h[i])

\* C18: when the exchange of a list call succeeded and its body was decoded,
\* ListWithPagination returns the decoded list also if the Link header has a
\* malformed entry and the pagination cannot be extracted.
C18_DataSurvives ==
    \A p \in Calls :
        (/\ p = listIn.by
         /\ listOut.done
         /\ pc[p] = "done"
         /\ result[p] = OkResult
         /\ HasMalformed(listIn.link))
        => listOut.res.resource = result[p].value

\* C19: extractPagination on a header with a malformed entry, wherever it
\* stands, returns an error and a nil *Pagination: nothing of the entries
\* before it is handed back, and the entry is not skipped.
C19_MalformedRejected ==
    (pgOut.done /\ HasMalformed(listIn.link))
    => /\ pgOut.res.err # NoError
       /\ pgOut.res.nil
       /\ pgOut.res.pagination = EmptyPagination

C19_Witness ==
    /\ pgOut.done
    /\ Len(listIn.link) = 2
    /\ WellFormed(listIn.link[1])
    /\ listIn.link[1].rel = "next"
    /\ listIn.link[2].shape = "noquote"
    /\ pgOut.res = PaginationError(LinkHeaderError)

\* C20: extractPagination on a header of well-formed entries, one of them
\* with a REL other than next, prev, first and last, returns no error, and a
\* descriptor that no entry of the header names stays absent.
C20_UnknownRelIgnored ==
    (/\ pgOut.done
     /\ \A i \in 1..Len(listIn.link) : WellFormed(listIn.link[i])
     /\ HasUnknownRel(listIn.link))
    => /\ pgOut.res.err = NoError
       /\ ~pgOut.res.nil
       /\ \A r \in Rels :
            (\A i \in 1..Len(listIn.link) : listIn.link[i].rel # r)
            => pgOut.res.pagination[r] = NoPage

\* a header of well-formed entries whose REL is one of the four
AllWellFormed(h) ==
    \A i \in 1..Len(h) : WellFormed(h[i]) /\ ~UnknownRel(h[i])
\* the entries of h that name the relation r
EntriesOf(h, r) == {i \in 1..Len(h) : h[i].rel = r}
LastOf(S) == CHOOSE i \in S : \A j \in S : j <= i

\* C21: for a header of well-formed entries extractPagination returns a
\* Pagination and no error; a relation an entry of the header names has a
\* descriptor whose page is the page parameter of such an entry's URL, 0
\* without one, and a relation no entry names has none.
C21_WellFormedHeader ==
    (pgOut.done /\ AllWellFormed(listIn.link))
    => /\ pgOut.res.err = NoError
       /\ ~pgOut.res.nil
       /\ \A r \in Rels :
            IF EntriesOf(listIn.link, r) = {}
            THEN pgOut.res.pagination[r] = NoPage
            ELSE \E i \in EntriesOf(listIn.link, r) :
                    pgOut.res.pagination[r] = PageOptions(Atoi(listIn.link[i].page))

\* C22: for a header of well-formed entries of which several name the same
\* relation, extractPagination returns no error and the descriptor of that
\* relation is the one of the last of them.
C22_LastRelWins ==
    (pgOut.done /\ AllWellFormed(listIn.link))
    => \A r \in Rels :
         Cardinality(EntriesOf(listIn.link, r)) > 1
         => /\ pgOut.res.err = NoError
            /\ pgOut.res.pagination[r]
                 = PageOptions(Atoi(listIn.link[LastOf(EntriesOf(listIn.link, r))].page))

\* C23: extractPagination on the empty header (the value of an absent one)
\* returns a Pagination without descriptors and no error, and a list call
\* that succeeded with such a header returns its data, that Pagination and no
\* error.
C23_EmptyHeader ==
    /\ (pgOut.done /\ listIn.link = <<>>)
       => pgOut.res = PaginationResult(EmptyPagination)
    /\ \A p \in Calls :
         (/\ p = listIn.by
          /\ listOut.done
          /\ pc[p] = "done"
          /\ result[p] = OkResult
          /\ listIn.link = <<>>)
         => listOut.res = ListResult(result[p].value, PaginationResult(EmptyPagination))

C23_Witness ==
    /\ pgOut.done
    /\ listOut.done
    /\ listIn.link = <<>>
    /\ \E p \in Calls :
         p = listIn.by /\ result[p] = OkResult /\ Sent(p) = 2 /\ cAttempts = 2
    /\ ~pgOut.res.nil
    /\ listOut.res.resource = "v"

\* C24: a call whose request cannot be built (path, options, body or method)
\* returns the error of the build: it sends no request, sleeps and retries
\* nothing, and leaves the attempt counter of the Client alone.
C24_BuildErrorSendsNothing ==
    \A p \in Calls :
        req[p].err # ""
        => /\ pc[p] \in {"built", "done"}
           /\ Sent(p) = 0
           /\ lastSent[p] = NoSent
           /\ lastWait[p] = 0
           /\ pc[p] = "done"
              => /\ result[p].ret = "err"
                 /\ result[p].err = BuildError(req[p].err)
                 /\ ~result[p].headers

C24_Witness ==
    \E p \in Calls :
        /\ pc[p] = "done"
        /\ req[p].err = "options"
        /\ result[p].err = BuildError("options")
        /\ Sent(p) = 0
        /\ callsLeft[p] = 0

\* C25: the timeout set at construction holds for every attempt of every
\* call: each request was sent through an *http.Client with that timeout, and
\* the c.Client the next attempt will use has it, whatever calls came before.
C25_TimeoutKept ==
    /\ ClientTimeout(cClient) = defaultHttpTimeout
    /\ \A p \in Calls :
         lastSent[p] # NoSent => ClientTimeout(lastSent[p].via) = defaultHttpTimeout

\* C26: no step of a call changes the credentials or the retry count of the
\* Client, and a call that starts takes that retry count as its budget.
C26_ConfigReadOnly ==
    [][/\ cApp' = cApp
       /\ cRetries' = cRetries
       /\ \A p \in Calls :
            (pc[p] = "built" /\ pc'[p] = "auth") => retries'[p] = cRetries]_vars

\* a second call under way that has retried, the configuration as constructed
C26_Witness ==
    \E p \in Calls :
        /\ callsLeft[p] = 0
        /\ pc[p] = "loop"
        /\ Sent(p) > 0
        /\ retries[p] < cRetries
        /\ cRetries = MaxRetries
        /\ cApp = [key |-> "ck", secret |-> "cs"]

\* C27: a call that has returned hands back headers exactly when it hands
\* back no error; the headers are then those of the response of its last
\* send, a 2xx one, and every error return, the decode failure of a 2xx body
\* (into the value the caller passed) and the error after retries included,
\* has nil headers.
C27_HeadersIffNoError ==
    \A p \in Calls :
        pc[p] = "done"
        => /\ result[p].headers <=> result[p].err = NoError
           /\ result[p].headers <=> result[p].ret = "ok"
           /\ result[p].headers
              => /\ Sent(p) > 0
                 /\ resp[p] = Last(hist[p])
                 /\ ~resp[p].net /\ Is2xx(resp[p].status)
           /\ (Sent(p) > 0 /\ ~resp[p].net /\ Is2xx(resp[p].status)
               /\ req[p].v /\ resp[p].body \notin DecodableJson)
              => ~result[p].headers /\ result[p].err = JsonDecodeError

\* a call that returned the headers of its second response, after a 503
C27_Witness ==
    \E p \in Calls :
        /\ pc[p] = "done"
        /\ Sent(p) = 2
        /\ hist[p][1].status = StatusServiceUnavailable
        /\ result[p].headers
        /\ result[p].err = NoError

\* C28: whatever the retry count N (zero and negative too) and whatever the
\* server answers, a call never sends more than max(N,1) requests, a call that
\* entered doGetHeaders returns, as a success or with an error, and it has
\* sent at least one request by then.
C28_Terminates ==
    /\ [](\A p \in Calls :
            /\ Sent(p) <= Max(cRetries, 1)
            /\ (pc[p] = "done" /\ req[p].err = "")
               => Sent(p) >= 1 /\ result[p].ret \in {"ok", "err"})
    /\ \A p \in Calls : pc[p] = "auth" ~> pc[p] = "done"

\* a call with a negative retry count that has returned after one request
C28_Witness ==
    \E p \in Calls :
        /\ cRetries < 0
        /\ pc[p] = "done"
        /\ Sent(p) = 1
        /\ Retryable(resp[p])
        /\ result[p].ret = "err"

\* C29: every send of a call, a retry after 429 or 503 too, transmits the
\* body the request was built with: none for a request without body, else
\* the whole of it.
C29_SameBodyEachAttempt ==
    \A p \in Calls :
        lastSent[p] # NoSent
        => lastSent[p].body = (IF req[p].body = "none" THEN "none" ELSE "full")

\* C30: in a call that runs alone with a retry count N >= 1, the attempt
\* counter is 0 when the loop is entered and, once a request has been sent,
\* equals N - remaining retries + 1, which is the number of requests sent; the
\* remaining-retries counter starts at N and never falls below 1.
C30_AttemptCounter ==
    \A p \in Calls :
        (cRetries >= 1 /\ req[p].err = "")
        => /\ pc[p] = "auth" => cAttempts = 0 /\ retries[p] = cRetries
           /\ pc[p] \in {"auth", "loop", "inc", "send", "recv", "done"}
              => 1 <= retries[p] /\ retries[p] <= cRetries
           /\ pc[p] \in {"recv", "done"}
              => /\ cAttempts = cRetries - retries[p] + 1
                 /\ cAttempts = Sent(p)

\* a second call on the Client that has used up its budget of MaxRetries
C30_Witness ==
    \E p \in Calls :
        /\ callsLeft[p] = 0
        /\ cRetries = MaxRetries
        /\ pc[p] = "recv"
        /\ retries[p] = 1
        /\ cAttempts = MaxRetries

====
